---- MODULE Spec2Model ----
(***************************************************************************)
(* A model of pypoly/polynomials.c: polynomials over complex coefficients, *)
(* stored as a degree and a heap-allocated coefficient array.              *)
(*                                                                         *)
(* A C double is modelled as an exact rational <<num, den>> in lowest      *)
(* terms (den > 0), so that the scalar operations form a field of          *)
(* characteristic 0.  The heap is modelled explicitly: a Polynomial is the *)
(* struct {deg, coef} where coef is a block number (0 is NULL).            *)
(***************************************************************************)
EXTENDS Integers, Sequences, FiniteSets, TLC

(***************************************************************************)
(* Bounds of the model.                                                    *)
(***************************************************************************)
MaxDeg == 2        \* largest degree of an input of poly_div
MaxOpsDeg == 1     \* largest degree of an initial register of the operator machine
MaxOps == 2        \* number of operator calls in a run of the operator machine
MaxExp == 2        \* largest exponent handed to poly_pow
MaxCalls == 4      \* number of poly_set_coef calls in a run

(***************************************************************************)
(* double: exact rationals.                                                *)
(***************************************************************************)
Abs(n) == IF n < 0 THEN -n ELSE n

RECURSIVE GCD(_, _)
GCD(a, b) == IF b = 0 THEN a ELSE GCD(b, a % b)

\* the rational n/d (d # 0) in lowest terms with a positive denominator
Norm(n, d) ==
    LET s == IF d < 0 THEN -1 ELSE 1
        g == GCD(Abs(n), Abs(d))
    IN  <<(s * n) \div g, (s * d) \div g>>

DZero == <<0, 1>>
DOne == <<1, 1>>
DInt(n) == <<n, 1>>
DAdd(x, y) == Norm(x[1] * y[2] + y[1] * x[2], x[2] * y[2])
DSub(x, y) == Norm(x[1] * y[2] - y[1] * x[2], x[2] * y[2])
DNeg(x) == <<-x[1], x[2]>>
DMul(x, y) == Norm(x[1] * y[1], x[2] * y[2])
\* x / y for y # 0
DDiv(x, y) == Norm(x[1] * y[2], x[2] * y[1])

(***************************************************************************)
(* Complex numbers.                                                        *)
(***************************************************************************)
Cx(re, im) == [real |-> re, imag |-> im]
CZero == Cx(DZero, DZero)
COne == Cx(DOne, DZero)

complex_iszero(c) == c.real = DZero /\ c.imag = DZero

complex_add(a, b) == Cx(DAdd(a.real, b.real), DAdd(a.imag, b.imag))

complex_sub(a, b) == Cx(DSub(a.real, b.real), DSub(a.imag, b.imag))

complex_neg(z) == Cx(DNeg(z.real), DNeg(z.imag))

complex_mult(a, b) ==
    Cx(DSub(DMul(a.real, b.real), DMul(a.imag, b.imag)),
       DAdd(DMul(a.real, b.imag), DMul(a.imag, b.real)))

\* The branch d = 0 sets errno and returns an uninitialised value; every use
\* in the model has a non-zero divisor, and the CASE has no other arm.
complex_div(a, b) ==
    LET d == DAdd(DMul(b.real, b.real), DMul(b.imag, b.imag))
    IN  CASE d # DZero ->
             Cx(DDiv(DAdd(DMul(a.real, b.real), DMul(a.imag, b.imag)), d),
                DDiv(DSub(DMul(a.imag, b.real), DMul(a.real, b.imag)), d))

(***************************************************************************)
(* The heap: a sequence of blocks, each live or freed, and a flag that     *)
(* records a free() of a block that was not live.                          *)
(***************************************************************************)
EmptyHeap == [blk |-> <<>>, bad |-> FALSE]

ZeroArray(n) == [i \in 0..(n - 1) |-> CZero]

\* calloc(n, sizeof(Complex)): n < 0 is a size_t too large to serve
Calloc(H, n, avail) ==
    IF n < 0 \/ ~avail
    THEN [H |-> H, p |-> 0]
    ELSE [H |-> [H EXCEPT !.blk = Append(@, [live |-> TRUE, data |-> ZeroArray(n)])],
          p |-> Len(H.blk) + 1]

\* free(p)
Free(H, p) ==
    IF p = 0 THEN H
    ELSE IF H.blk[p].live
         THEN [H EXCEPT !.blk[p].live = FALSE]
         ELSE [H EXCEPT !.bad = TRUE]

\* P->coef[i]
Coef(H, P, i) == H.blk[P.coef].data[i]

\* P->coef[i] = c
StoreCoef(H, P, i, c) == [H EXCEPT !.blk[P.coef].data[i] = c]

\* the fields of a Polynomial that no call has written yet
Uninit == [deg |-> -2, coef |-> -1]

(***************************************************************************)
(* Macros: the coefficient at an index (zero when out of range), the       *)
(* leading coefficient, and the recomputation of the degree.               *)
(***************************************************************************)
Poly_GetCoef(H, P, i) == IF i > P.deg THEN CZero ELSE Coef(H, P, i)

Poly_LeadCoef(H, P) == Coef(H, P, P.deg)

RECURSIVE Poly_Resize(_, _)
Poly_Resize(H, P) ==
    IF P.deg # -1 /\ complex_iszero(Coef(H, P, P.deg))
    THEN Poly_Resize(H, [P EXCEPT !.deg = @ - 1])
    ELSE P

(***************************************************************************)
(* Construction.  Every operator returns [ret, H, P]: the C return value,  *)
(* the heap and the destination struct after the call.                     *)
(***************************************************************************)
poly_init(H, P, deg, avail) ==
    IF deg = -1
    THEN [ret |-> 1, H |-> H, P |-> [deg |-> -1, coef |-> 0]]
    ELSE LET c == Calloc(H, deg + 1, avail)
         IN  IF c.p = 0
             THEN [ret |-> 0, H |-> H, P |-> [P EXCEPT !.coef = 0]]
             ELSE [ret |-> 1, H |-> c.H, P |-> [deg |-> deg, coef |-> c.p]]

\* poly_free returns no value: ret is 1
poly_free(H, P) ==
    [ret |-> 1, H |-> Free(H, P.coef), P |-> [P EXCEPT !.coef = 0]]

\* poly_set_coef without its Poly_Resize
poly_set_coef_noresize(H, P, i, c) ==
    LET H1 == StoreCoef(H, P, i, c)
    IN  IF i > P.deg /\ ~complex_iszero(c)
        THEN [ret |-> 1, H |-> H1, P |-> [P EXCEPT !.deg = i]]
        ELSE [ret |-> 1, H |-> H1, P |-> P]

poly_set_coef(H, P, i, c) ==
    LET H1 == StoreCoef(H, P, i, c)
    IN  IF i > P.deg /\ ~complex_iszero(c)
        THEN [ret |-> 1, H |-> H1, P |-> [P EXCEPT !.deg = i]]
        ELSE [ret |-> 1, H |-> H1, P |-> Poly_Resize(H1, P)]

Poly_InitConst(H, P, c, avail) ==
    LET r == poly_init(H, P, 0, avail)
    IN  IF r.ret = 0 THEN r ELSE poly_set_coef(r.H, r.P, 0, c)

\* the shortcut P == Q (the same object) gives the same answer as the loop
poly_equal(H, P, Q) ==
    IF P.deg # Q.deg THEN 0
    ELSE IF \A i \in 0..P.deg :
                /\ Coef(H, P, i).real = Coef(H, Q, i).real
                /\ Coef(H, P, i).imag = Coef(H, Q, i).imag
         THEN 1 ELSE 0

(***************************************************************************)
(* Operators.  The destination R is the struct as the caller left it.      *)
(***************************************************************************)
MAX(a, b) == IF a > b THEN a ELSE b

\* the block of P with the indices 0..n assigned f[0], ..., f[n]
Fill(H, P, n, f) ==
    IF n < 0 THEN H
    ELSE [H EXCEPT !.blk[P.coef].data =
              [i \in DOMAIN @ |-> IF i <= n THEN f[i] ELSE @[i]]]

poly_copy(H, A, P, avail) ==
    LET r == poly_init(H, P, A.deg, avail)
        Src == [i \in 0..A.deg |-> Coef(H, A, i)]
    IN  IF r.ret = 0 THEN r
        ELSE [r EXCEPT !.H = Fill(r.H, r.P, A.deg, Src)]

poly_add(H, A, B, R, avail) ==
    LET r == poly_init(H, R, MAX(A.deg, B.deg), avail)
        Sum == [i \in 0..MAX(A.deg, B.deg) |->
                   complex_add(Poly_GetCoef(H, A, i), Poly_GetCoef(H, B, i))]
    IN  IF r.ret = 0 THEN r
        ELSE LET H1 == Fill(r.H, r.P, MAX(A.deg, B.deg), Sum)
             IN  [ret |-> 1, H |-> H1, P |-> Poly_Resize(H1, r.P)]

\* poly_sub without its Poly_Resize
poly_sub_noresize(H, A, B, R, avail) ==
    LET r == poly_init(H, R, MAX(A.deg, B.deg), avail)
        Diff == [i \in 0..MAX(A.deg, B.deg) |->
                    complex_sub(Poly_GetCoef(H, A, i), Poly_GetCoef(H, B, i))]
    IN  IF r.ret = 0 THEN r
        ELSE [ret |-> 1, H |-> Fill(r.H, r.P, MAX(A.deg, B.deg), Diff), P |-> r.P]

poly_sub(H, A, B, R, avail) ==
    LET r == poly_init(H, R, MAX(A.deg, B.deg), avail)
        Diff == [i \in 0..MAX(A.deg, B.deg) |->
                    complex_sub(Poly_GetCoef(H, A, i), Poly_GetCoef(H, B, i))]
    IN  IF r.ret = 0 THEN r
        ELSE LET H1 == Fill(r.H, r.P, MAX(A.deg, B.deg), Diff)
             IN  [ret |-> 1, H |-> H1, P |-> Poly_Resize(H1, r.P)]

poly_neg(H, A, Q, avail) ==
    LET r == poly_init(H, Q, A.deg, avail)
        Neg == [i \in 0..A.deg |-> complex_neg(Coef(H, A, i))]
    IN  IF r.ret = 0 THEN r
        ELSE [r EXCEPT !.H = Fill(r.H, r.P, A.deg, Neg)]

\* the inner loop of poly_multiply: R->coef[i] after j has run from 0 to k
RECURSIVE MulAcc(_, _, _, _, _)
MulAcc(H, A, B, i, k) ==
    IF k < 0 THEN CZero
    ELSE complex_add(MulAcc(H, A, B, i, k - 1),
                     complex_mult(Poly_GetCoef(H, A, k), Poly_GetCoef(H, B, i - k)))

poly_multiply(H, A, B, R, avail) ==
    LET r == poly_init(H, R, A.deg + B.deg, avail)
        Conv == [i \in 0..(A.deg + B.deg) |-> MulAcc(H, A, B, i, i)]
    IN  IF r.ret = 0 THEN r
        ELSE [r EXCEPT !.H = Fill(r.H, r.P, A.deg + B.deg, Conv)]

\* the loop of poly_pow, entered with n not yet decremented; T is a local
RECURSIVE PowLoop(_, _, _, _, _)
PowLoop(H, A, n, R, avail) ==
    IF n - 1 > 0
    THEN LET m == poly_multiply(H, R, A, Uninit, avail)
             f == poly_free(m.H, R)
         IN  IF m.ret = 0
             THEN [ret |-> 0, H |-> f.H, P |-> f.P]
             ELSE PowLoop(f.H, A, n - 1, m.P, avail)
    ELSE [ret |-> 1, H |-> H, P |-> R]

poly_pow(H, A, n, R, avail) ==
    IF n = 0
    THEN Poly_InitConst(H, R, Cx(DInt(1), DInt(0)), avail)
    ELSE LET c == poly_copy(H, A, R, avail)
         IN  IF c.ret = 1 THEN PowLoop(c.H, A, n, c.P, avail) ELSE c

poly_derive(H, A, R, avail) ==
    LET r == poly_init(H, R, MAX(-1, A.deg - 1), avail)
        D == [i \in 0..(A.deg - 1) |->
                 complex_mult(Cx(DInt(i + 1), DInt(0)), Coef(H, A, i + 1))]
    IN  IF r.ret = 0 THEN r
        ELSE [r EXCEPT !.H = Fill(r.H, r.P, A.deg - 1, D)]

(***************************************************************************)
(* poly_div.  A frame st holds the heap, the arguments (wantQ is           *)
(* Q != NULL), the locals, the position pc, the value returned (<<v>>,     *)
(* <<>> before the return), whether calloc has failed for lack of memory,  *)
(* and the number of times the loop body was entered.  There is one        *)
(* operator per fallible call of the body; avail says whether the calloc   *)
(* of that call finds memory.                                              *)
(***************************************************************************)
\* div_enter with the four poly_init(.., -1) ahead of the test of B->deg
div_enter_late(st) ==
    LET w == [st EXCEPT !.Q = IF st.wantQ THEN poly_init(st.H, st.Q, -1, TRUE).P
                              ELSE st.Q,
                        !.R = poly_init(st.H, st.R, -1, TRUE).P,
                        !.T1 = poly_init(st.H, st.T1, -1, TRUE).P,
                        !.T2 = poly_init(st.H, st.T2, -1, TRUE).P]
    IN  IF st.B.deg = -1
        THEN [w EXCEPT !.ret = <<-1>>, !.pc = "done"]
        ELSE [w EXCEPT !.B_leadcoef = Poly_LeadCoef(st.H, st.B), !.pc = "initQ"]

\* the test B->deg == -1, and the four poly_init(.., -1)
div_enter(st) ==
    IF st.B.deg = -1
    THEN [st EXCEPT !.ret = <<-1>>, !.pc = "done"]
    ELSE [st EXCEPT !.B_leadcoef = Poly_LeadCoef(st.H, st.B),
                    !.Q = IF st.wantQ THEN poly_init(st.H, st.Q, -1, TRUE).P
                          ELSE st.Q,
                    !.R = poly_init(st.H, st.R, -1, TRUE).P,
                    !.T1 = poly_init(st.H, st.T1, -1, TRUE).P,
                    !.T2 = poly_init(st.H, st.T2, -1, TRUE).P,
                    !.pc = "initQ"]

\* if (Q != NULL && !poly_init(Q, A->deg)) goto error;
div_init_q(st, avail) ==
    IF st.wantQ
    THEN LET r == poly_init(st.H, st.Q, st.A.deg, avail)
         IN  [st EXCEPT !.H = r.H, !.Q = r.P,
                        !.allocFailed = (@ \/ ~avail),
                        !.pc = IF r.ret = 0 THEN "error" ELSE "copyA"]
    ELSE [st EXCEPT !.pc = "copyA"]

\* if (!poly_copy(A, R)) goto error;
div_copy_a(st, avail) ==
    LET r == poly_copy(st.H, st.A, st.R, avail)
    IN  [st EXCEPT !.H = r.H, !.R = r.P,
                   !.allocFailed = (@ \/ ~avail),
                   !.pc = IF r.ret = 0 THEN "error" ELSE "loop"]

\* while (R->deg - B->deg >= 0) ... return 1;
div_test(st) ==
    IF st.R.deg - st.B.deg >= 0
    THEN [st EXCEPT !.pc = "initT1", !.iters = @ + 1]
    ELSE [st EXCEPT !.pc = "done", !.ret = <<1>>]

\* poly_init(&T1, R->deg - B->deg) and the poly_set_coef of the new term
div_init_t1(st, avail) ==
    LET r == poly_init(st.H, st.T1, st.R.deg - st.B.deg, avail)
        s == poly_set_coef(r.H, r.P, st.R.deg - st.B.deg,
                           complex_div(Poly_LeadCoef(st.H, st.R), st.B_leadcoef))
    IN  IF r.ret = 0
        THEN [st EXCEPT !.H = r.H, !.T1 = r.P,
                        !.allocFailed = (@ \/ ~avail), !.pc = "error"]
        ELSE [st EXCEPT !.H = s.H, !.T1 = s.P,
                        !.allocFailed = (@ \/ ~avail),
                        !.pc = IF st.wantQ THEN "addQ" ELSE "mult"]

\* div_add_q with poly_sub in the place of poly_add
div_add_q_sub(st, avail) ==
    LET r == poly_sub(st.H, st.Q, st.T1, st.T2, avail)
        f == poly_free(r.H, st.Q)
    IN  IF r.ret = 0
        THEN [st EXCEPT !.H = r.H, !.T2 = r.P,
                        !.allocFailed = (@ \/ ~avail), !.pc = "error"]
        ELSE [st EXCEPT !.H = f.H, !.T2 = r.P, !.Q = f.P,
                        !.allocFailed = (@ \/ ~avail), !.pc = "copyQ"]

\* if (!poly_add(Q, &T1, &T2)) goto error; poly_free(Q);
div_add_q(st, avail) ==
    LET r == poly_add(st.H, st.Q, st.T1, st.T2, avail)
        f == poly_free(r.H, st.Q)
    IN  IF r.ret = 0
        THEN [st EXCEPT !.H = r.H, !.T2 = r.P,
                        !.allocFailed = (@ \/ ~avail), !.pc = "error"]
        ELSE [st EXCEPT !.H = f.H, !.T2 = r.P, !.Q = f.P,
                        !.allocFailed = (@ \/ ~avail), !.pc = "copyQ"]

\* if (!poly_copy(&T2, Q)) goto error; poly_free(&T2);
div_copy_q(st, avail) ==
    LET r == poly_copy(st.H, st.T2, st.Q, avail)
        f == poly_free(r.H, st.T2)
    IN  IF r.ret = 0
        THEN [st EXCEPT !.H = r.H, !.Q = r.P,
                        !.allocFailed = (@ \/ ~avail), !.pc = "error"]
        ELSE [st EXCEPT !.H = f.H, !.Q = r.P, !.T2 = f.P,
                        !.allocFailed = (@ \/ ~avail), !.pc = "mult"]

\* if (!poly_multiply(&T1, B, &T2)) goto error; poly_free(&T1);
div_mult(st, avail) ==
    LET r == poly_multiply(st.H, st.T1, st.B, st.T2, avail)
        f == poly_free(r.H, st.T1)
    IN  IF r.ret = 0
        THEN [st EXCEPT !.H = r.H, !.T2 = r.P,
                        !.allocFailed = (@ \/ ~avail), !.pc = "error"]
        ELSE [st EXCEPT !.H = f.H, !.T2 = r.P, !.T1 = f.P,
                        !.allocFailed = (@ \/ ~avail), !.pc = "sub"]

\* if (!poly_sub(R, &T2, &T1)) goto error; poly_free(&T2); poly_free(R);
div_sub(st, avail) ==
    LET r == poly_sub(st.H, st.R, st.T2, st.T1, avail)
        f == poly_free(r.H, st.T2)
        g == poly_free(f.H, st.R)
    IN  IF r.ret = 0
        THEN [st EXCEPT !.H = r.H, !.T1 = r.P,
                        !.allocFailed = (@ \/ ~avail), !.pc = "error"]
        ELSE [st EXCEPT !.H = g.H, !.T1 = r.P, !.T2 = f.P, !.R = g.P,
                        !.allocFailed = (@ \/ ~avail), !.pc = "copyR"]

\* if (!poly_copy(&T1, R)) goto error; poly_free(&T1);
div_copy_r(st, avail) ==
    LET r == poly_copy(st.H, st.T1, st.R, avail)
        f == poly_free(r.H, st.T1)
    IN  IF r.ret = 0
        THEN [st EXCEPT !.H = r.H, !.R = r.P,
                        !.allocFailed = (@ \/ ~avail), !.pc = "error"]
        ELSE [st EXCEPT !.H = f.H, !.R = r.P, !.T1 = f.P,
                        !.allocFailed = (@ \/ ~avail), !.pc = "loop"]

\* if (.. ->coef != NULL) poly_free(..)
FreeIfSet(H, P, cond) ==
    IF cond /\ P.coef # 0 THEN poly_free(H, P) ELSE [ret |-> 1, H |-> H, P |-> P]

\* div_error without the poly_free of the buffers T1 and T2
div_error_outputs_only(st) ==
    LET fq == FreeIfSet(st.H, st.Q, st.wantQ)
        fr == FreeIfSet(fq.H, st.R, TRUE)
    IN  [st EXCEPT !.H = fr.H, !.Q = fq.P, !.R = fr.P,
                   !.ret = <<0>>, !.pc = "done"]

\* error: the four guarded poly_free, return 0
div_error(st) ==
    LET fq == FreeIfSet(st.H, st.Q, st.wantQ)
        fr == FreeIfSet(fq.H, st.R, TRUE)
        f1 == FreeIfSet(fr.H, st.T1, TRUE)
        f2 == FreeIfSet(f1.H, st.T2, TRUE)
    IN  [st EXCEPT !.H = f2.H, !.Q = fq.P, !.R = fr.P, !.T1 = f1.P, !.T2 = f2.P,
                   !.ret = <<0>>, !.pc = "done"]

\* the next step of a call with memory available
div_step(st) ==
    CASE st.pc = "start" -> div_enter(st)
      [] st.pc = "initQ" -> div_init_q(st, TRUE)
      [] st.pc = "copyA" -> div_copy_a(st, TRUE)
      [] st.pc = "loop" -> div_test(st)
      [] st.pc = "initT1" -> div_init_t1(st, TRUE)
      [] st.pc = "addQ" -> div_add_q(st, TRUE)
      [] st.pc = "copyQ" -> div_copy_q(st, TRUE)
      [] st.pc = "mult" -> div_mult(st, TRUE)
      [] st.pc = "sub" -> div_sub(st, TRUE)
      [] st.pc = "copyR" -> div_copy_r(st, TRUE)
      [] st.pc = "error" -> div_error(st)

\* the steps of a call up to its return (the singleton set has the frame
\* after a step computed once)
RECURSIVE div_run(_)
div_run(st) ==
    IF st.pc = "done" THEN st
    ELSE CHOOSE end \in {div_run(next) : next \in {div_step(st)}} : TRUE

\* the frame at the entry of poly_div(A, B, Q, R); T1 and T2 are locals
Frame(H0, A0, B0, wq, Q0, R0) ==
    [H |-> H0, A |-> A0, B |-> B0, wantQ |-> wq, Q |-> Q0, R |-> R0,
     T1 |-> Uninit, T2 |-> Uninit, B_leadcoef |-> CZero, pc |-> "start",
     ret |-> <<>>, allocFailed |-> FALSE, iters |-> 0]

\* a whole call of poly_div with memory available: [ret, H, Q, R]
poly_div(H0, A0, B0, wq, Q0, R0) ==
    CHOOSE d \in {[ret |-> st.ret[1], H |-> st.H, Q |-> st.Q, R |-> st.R] :
                  st \in {div_run(Frame(H0, A0, B0, wq, Q0, R0))}} : TRUE

(***************************************************************************)
(* State.                                                                  *)
(*   H                    the heap                                        *)
(*   A, B, Q, R, T1, T2   the Polynomial structs of a call of poly_div    *)
(*   wantQ                Q != NULL                                       *)
(*   B_leadcoef           the local of poly_div                           *)
(*   pc, ret              the position in poly_div; <<v>> once v returned *)
(*   allocFailed          calloc has returned NULL for lack of memory     *)
(*   iters                the number of times the loop body was entered   *)
(*   regs, nops, last     the operator machine: two polynomials, the      *)
(*                        number of calls made, and the last call         *)
(*   P, calls             a polynomial under poly_set_coef, and the       *)
(*                        number of calls made                            *)
(***************************************************************************)
VARIABLES H, A, B, Q, R, T1, T2, wantQ, B_leadcoef, pc, ret, allocFailed,
          iters, regs, nops, last, P, calls

divVars == <<A, B, Q, R, T1, T2, wantQ, B_leadcoef, pc, ret, allocFailed, iters>>
opsVars == <<regs, nops, last>>
setVars == <<P, calls>>
vars == <<H, divVars, opsVars, setVars>>

DivIdle ==
    /\ A = Uninit /\ B = Uninit /\ Q = Uninit /\ R = Uninit
    /\ T1 = Uninit /\ T2 = Uninit
    /\ wantQ = FALSE /\ B_leadcoef = CZero
    /\ pc = "idle" /\ ret = <<>> /\ allocFailed = FALSE /\ iters = 0

\* a call: the operator, the exponent (poly_pow), the value returned, the
\* operands, the result, and the second result (the remainder of poly_div)
NoCall == [op |-> "none", n |-> 0, ret |-> 1, a |-> Uninit, b |-> Uninit,
           q |-> Uninit, r |-> Uninit]

OpsIdle == regs = <<Uninit, Uninit>> /\ nops = 0 /\ last = NoCall

SetIdle == P = Uninit /\ calls = 0

(***************************************************************************)
(* Inputs.  A coefficient array with a non-zero top entry is what          *)
(* poly_init(P, d) followed by poly_set_coef(P, i, c) for i = 0..d leaves  *)
(* in the block of P; the empty array stands for poly_init(P, -1).         *)
(***************************************************************************)
CoefValues == {CZero, Cx(DInt(2), DInt(0)), Cx(DInt(-1), DInt(1))}

Inputs(maxd) ==
    UNION {{f \in [0..d -> CoefValues] : d >= 0 => ~complex_iszero(f[d])} :
           d \in (-1)..maxd}

MkPoly(H0, f) ==
    IF DOMAIN f = {}
    THEN [H |-> H0, P |-> [deg |-> -1, coef |-> 0]]
    ELSE [H |-> [H0 EXCEPT !.blk = Append(@, [live |-> TRUE, data |-> f])],
          P |-> [deg |-> Cardinality(DOMAIN f) - 1, coef |-> Len(H0.blk) + 1]]

\* the outcomes of the calloc in poly_init(P, deg): memory is there or it is not
Avail(deg) == IF deg = -1 THEN {TRUE} ELSE BOOLEAN

(***************************************************************************)
(* poly_set_coef on a polynomial made by poly_init(P, d), d >= 0.          *)
(***************************************************************************)
SetInit ==
    /\ \E d \in 0..MaxDeg :
          LET r == poly_init(EmptyHeap, Uninit, d, TRUE)
          IN  H = r.H /\ P = r.P
    /\ calls = 0
    /\ DivIdle /\ OpsIdle

\* the top index of the block of P
Top(H0, P0) == Cardinality(DOMAIN H0.blk[P0.coef].data) - 1

SetCoef ==
    /\ calls < MaxCalls
    /\ \E i \in 0..Top(H, P), c \in CoefValues :
          LET r == poly_set_coef(H, P, i, c)
          IN  H' = r.H /\ P' = r.P
    /\ calls' = calls + 1
    /\ UNCHANGED <<divVars, opsVars>>

SetNext == SetCoef

SetSpec == SetInit /\ [][SetNext]_vars

(***************************************************************************)
(* A call of poly_div, step by step, where each calloc may fail.           *)
(***************************************************************************)
DivInit ==
    /\ \E fa \in Inputs(MaxDeg), fb \in Inputs(MaxDeg), wq \in BOOLEAN :
          LET a == MkPoly(EmptyHeap, fa)
              b == MkPoly(a.H, fb)
              st == Frame(b.H, a.P, b.P, wq, Uninit, Uninit)
          IN  /\ H = st.H /\ A = st.A /\ B = st.B /\ wantQ = st.wantQ
              /\ Q = st.Q /\ R = st.R /\ T1 = st.T1 /\ T2 = st.T2
              /\ B_leadcoef = st.B_leadcoef /\ pc = st.pc /\ ret = st.ret
              /\ allocFailed = st.allocFailed /\ iters = st.iters
    /\ OpsIdle /\ SetIdle

\* the frame of the call in progress
Cur ==
    [H |-> H, A |-> A, B |-> B, wantQ |-> wantQ, Q |-> Q, R |-> R,
     T1 |-> T1, T2 |-> T2, B_leadcoef |-> B_leadcoef, pc |-> pc,
     ret |-> ret, allocFailed |-> allocFailed, iters |-> iters]

Load(st) ==
    /\ H' = st.H /\ A' = st.A /\ B' = st.B /\ wantQ' = st.wantQ
    /\ Q' = st.Q /\ R' = st.R /\ T1' = st.T1 /\ T2' = st.T2
    /\ B_leadcoef' = st.B_leadcoef /\ pc' = st.pc /\ ret' = st.ret
    /\ allocFailed' = st.allocFailed /\ iters' = st.iters
    /\ UNCHANGED <<opsVars, setVars>>

DivEnter == pc = "start" /\ Load(div_enter(Cur))

DivInitQ ==
    /\ pc = "initQ"
    /\ \E avail \in (IF wantQ THEN Avail(A.deg) ELSE {TRUE}) :
          Load(div_init_q(Cur, avail))

DivCopyA ==
    /\ pc = "copyA"
    /\ \E avail \in Avail(A.deg) : Load(div_copy_a(Cur, avail))

DivTest == pc = "loop" /\ Load(div_test(Cur))

DivInitT1 ==
    /\ pc = "initT1"
    /\ \E avail \in Avail(R.deg - B.deg) : Load(div_init_t1(Cur, avail))

DivAddQ ==
    /\ pc = "addQ"
    /\ \E avail \in Avail(MAX(Q.deg, T1.deg)) : Load(div_add_q(Cur, avail))

DivCopyQ ==
    /\ pc = "copyQ"
    /\ \E avail \in Avail(T2.deg) : Load(div_copy_q(Cur, avail))

DivMult ==
    /\ pc = "mult"
    /\ \E avail \in Avail(T1.deg + B.deg) : Load(div_mult(Cur, avail))

DivSub ==
    /\ pc = "sub"
    /\ \E avail \in Avail(MAX(R.deg, T2.deg)) : Load(div_sub(Cur, avail))

DivCopyR ==
    /\ pc = "copyR"
    /\ \E avail \in Avail(T1.deg) : Load(div_copy_r(Cur, avail))

DivError == pc = "error" /\ Load(div_error(Cur))

DivNext ==
    \/ DivEnter \/ DivInitQ \/ DivCopyA \/ DivTest \/ DivInitT1 \/ DivAddQ
    \/ DivCopyQ \/ DivMult \/ DivSub \/ DivCopyR \/ DivError

Spec == DivInit /\ [][DivNext]_vars

\* poly_div never waits: a call that has not returned takes its next step
FairSpec == Spec /\ WF_vars(DivNext)

(***************************************************************************)
(* The operator machine: two polynomials, and calls of the operators on    *)
(* them whose results replace them.  Memory is available.                  *)
(***************************************************************************)
OpsInit ==
    /\ \E fa \in Inputs(MaxOpsDeg), fb \in Inputs(MaxOpsDeg) :
          LET a == MkPoly(EmptyHeap, fa)
              b == MkPoly(a.H, fb)
          IN  H = b.H /\ regs = <<a.P, b.P>>
    /\ nops = 0
    /\ last = NoCall
    /\ DivIdle /\ SetIdle

\* the caller after a call op(a, b, &q) that returned r
Return(op, n, a, b, r, dst) ==
    /\ nops < MaxOps
    /\ nops' = nops + 1
    /\ H' = r.H
    /\ last' = [op |-> op, n |-> n, ret |-> r.ret, a |-> a, b |-> b,
                q |-> r.P, r |-> Uninit]
    /\ regs' = IF r.ret = 1 THEN [regs EXCEPT ![dst] = r.P] ELSE regs
    /\ UNCHANGED <<divVars, setVars>>

OpCopy ==
    \E a \in 1..2, dst \in 1..2 :
        Return("poly_copy", 0, regs[a], Uninit,
               poly_copy(H, regs[a], Uninit, TRUE), dst)

OpAdd ==
    \E a \in 1..2, b \in 1..2, dst \in 1..2 :
        Return("poly_add", 0, regs[a], regs[b],
               poly_add(H, regs[a], regs[b], Uninit, TRUE), dst)

OpSub ==
    \E a \in 1..2, b \in 1..2, dst \in 1..2 :
        Return("poly_sub", 0, regs[a], regs[b],
               poly_sub(H, regs[a], regs[b], Uninit, TRUE), dst)

OpNeg ==
    \E a \in 1..2, dst \in 1..2 :
        Return("poly_neg", 0, regs[a], Uninit,
               poly_neg(H, regs[a], Uninit, TRUE), dst)

OpMultiply ==
    \E a \in 1..2, b \in 1..2, dst \in 1..2 :
        Return("poly_multiply", 0, regs[a], regs[b],
               poly_multiply(H, regs[a], regs[b], Uninit, TRUE), dst)

OpPow ==
    \E a \in 1..2, n \in 0..MaxExp, dst \in 1..2 :
        Return("poly_pow", n, regs[a], Uninit,
               poly_pow(H, regs[a], n, Uninit, TRUE), dst)

OpDerive ==
    \E a \in 1..2, dst \in 1..2 :
        Return("poly_derive", 0, regs[a], Uninit,
               poly_derive(H, regs[a], Uninit, TRUE), dst)

\* poly_div(a, b, &q, &r): the quotient and the remainder replace both
\* polynomials.  The divisor is zero or has a non-zero leading coefficient.
OpDiv ==
    \E a \in 1..2, b \in 1..2 :
        /\ IF regs[b].deg = -1 THEN TRUE
           ELSE ~complex_iszero(Poly_LeadCoef(H, regs[b]))
        /\ \E d \in {poly_div(H, regs[a], regs[b], TRUE, Uninit, Uninit)} :
               /\ nops < MaxOps
               /\ nops' = nops + 1
               /\ H' = d.H
               /\ last' = [op |-> "poly_div", n |-> 0, ret |-> d.ret,
                           a |-> regs[a], b |-> regs[b], q |-> d.Q, r |-> d.R]
               /\ regs' = IF d.ret = 1 THEN <<d.Q, d.R>> ELSE regs
               /\ UNCHANGED <<divVars, setVars>>

OpsNext ==
    \/ OpCopy \/ OpAdd \/ OpSub \/ OpNeg \/ OpMultiply \/ OpPow \/ OpDerive
    \/ OpDiv

OpsSpec == OpsInit /\ [][OpsNext]_vars

(***************************************************************************)
(* Properties.                                                             *)
(***************************************************************************)
\* the degree invariant: deg is -1 or the coefficient at index deg is not zero
DegInv(H0, P0) ==
    IF P0.deg = -1 THEN TRUE ELSE ~complex_iszero(Coef(H0, P0, P0.deg))

\* the zero polynomial as poly_init(P, -1) makes it
ZeroPoly == poly_init(EmptyHeap, Uninit, -1, TRUE).P

\* the blocks of the heap that are live
LiveBlocks(H0) == {p \in 1..Len(H0.blk) : H0.blk[p].live}

\* C1: a call poly_div(A, B, Q, R) with B non-zero and no allocation failure
\* returns 1 with deg R < deg B and, when the quotient is requested,
\* poly_equal(poly_add(poly_multiply(B, Q), R), A).
C1_DivisionIdentity ==
    (pc = "done" /\ B.deg # -1 /\ ~allocFailed) =>
        /\ ret = <<1>>
        /\ R.deg < B.deg
        /\ wantQ =>
              \E m \in {poly_multiply(H, B, Q, Uninit, TRUE)} :
                  /\ m.ret = 1
                  /\ \E s \in {poly_add(m.H, m.P, R, Uninit, TRUE)} :
                        s.ret = 1 /\ poly_equal(s.H, s.P, A) = 1

C1_Witness ==
    /\ pc = "done" /\ ret = <<1>> /\ wantQ
    /\ iters >= 2 /\ R.deg >= 0 /\ Q.deg >= 1

\* C2: with B the zero polynomial the first step of poly_div returns -1 and
\* leaves the heap, Q and R as they were; with B non-zero poly_div never
\* returns -1.
C2_DivisionByZero ==
    [][((pc = "start" /\ B.deg = -1) =>
            (pc' = "done" /\ ret' = <<-1>> /\ H' = H /\ Q' = Q /\ R' = R))
       /\ ((pc' = "done" /\ B.deg # -1) => ret' \in {<<0>>, <<1>>})]_vars

C2_Witness == pc = "done" /\ ret = <<-1>> /\ A.deg >= 1 /\ wantQ

\* C7: no block is ever freed twice; a call in which an allocation failed
\* returns 0 with every block it allocated released and Q and R owning
\* nothing; a call that succeeds leaves T1 and T2 owning nothing and no live
\* block beside those of A, B, Q and R.
C7_DivReleasesStorage ==
    /\ ~H.bad
    /\ pc = "done" =>
          /\ ({A.coef, B.coef} \ {0}) \subseteq LiveBlocks(H)
          /\ allocFailed =>
                /\ ret = <<0>>
                /\ LiveBlocks(H) \subseteq {A.coef, B.coef}
                /\ R.coef = 0
                /\ wantQ => Q.coef = 0
          /\ ret = <<1>> =>
                /\ T1.coef = 0 /\ T2.coef = 0
                /\ LiveBlocks(H) \ {A.coef, B.coef} =
                       (IF wantQ THEN {Q.coef, R.coef} ELSE {R.coef}) \ {0}

C7_Witness ==
    /\ pc = "done" /\ allocFailed /\ wantQ /\ iters >= 2
    /\ Cardinality({p \in 1..Len(H.blk) : ~H.blk[p].live}) >= 4

\* C8: every iteration of the loop of poly_div ends with deg R smaller than
\* it began, the loop body is entered at most deg A - deg B + 1 times, and
\* the call returns.
C8_DivTerminates ==
    /\ [][(pc = "copyR" /\ pc' = "loop") => R'.deg < R.deg]_vars
    /\ [](iters <= MAX(0, A.deg - B.deg + 1))
    /\ <>(pc = "done")

C8_Witness ==
    /\ pc = "done" /\ ret = <<1>> /\ B.deg >= 1
    /\ iters = A.deg - B.deg + 1 /\ iters >= 2

\* C9: after at least one poly_set_coef on a polynomial made by poly_init,
\* deg is the largest index of a non-zero stored coefficient, or -1 when
\* there is none, and every stored coefficient above deg is zero.
C9_SetCoefDegree ==
    calls >= 1 =>
        LET data == H.blk[P.coef].data
            nz == {i \in DOMAIN data : ~complex_iszero(data[i])}
        IN  /\ P.deg = IF nz = {} THEN -1
                       ELSE CHOOSE i \in nz : \A j \in nz : j <= i
            /\ \A i \in DOMAIN data : (i > P.deg => complex_iszero(data[i]))

C9_Witness ==
    /\ calls >= 2 /\ P.deg >= 0 /\ P.deg < Top(H, P)
    /\ \E i \in 0..(P.deg - 1) : complex_iszero(Coef(H, P, i))

\* C10: a call of poly_div with a requested quotient, B non-zero,
\* deg A < deg B and no allocation failure never enters the loop body and
\* returns Q with deg -1, poly_equal to poly_init(-1), and R equal to A.
C10_QuotientStartsZero ==
    (pc = "done" /\ wantQ /\ ~allocFailed /\ B.deg # -1 /\ A.deg < B.deg) =>
        /\ ret = <<1>>
        /\ iters = 0
        /\ Q.deg = -1
        /\ poly_equal(H, Q, ZeroPoly) = 1
        /\ poly_equal(H, R, A) = 1

\* C3: poly_multiply on operands that satisfy the degree invariant returns 1;
\* the degree of the product is deg A + deg B when both are non-zero, and
\* the product is the zero polynomial (deg -1) when either is zero.
C3_MultiplyDegreeLaw ==
    (last.op = "poly_multiply" /\ DegInv(H, last.a) /\ DegInv(H, last.b)) =>
        /\ last.ret = 1
        /\ last.q.deg = IF last.a.deg = -1 \/ last.b.deg = -1 THEN -1
                        ELSE last.a.deg + last.b.deg

\* C4: every polynomial a successful operator has returned, on operands
\* that are inputs or earlier results, satisfies the degree invariant.
C4_ResultsKeepDegreeInvariant ==
    \A i \in 1..2 : DegInv(H, regs[i])

\* b is the polynomial poly_neg makes of a
IsNegOf(H0, a, b) ==
    /\ b.deg = a.deg
    /\ \A i \in 0..a.deg : Coef(H0, b, i) = complex_neg(Coef(H0, a, i))

\* C5: poly_add(A, poly_neg(A)) has deg -1 and coef NULL, and every
\* polynomial of deg -1 that an operator returns has coef NULL.
C5_ZeroOwnsNoStorage ==
    /\ (last.op = "poly_add" /\ last.ret = 1 /\ IsNegOf(H, last.a, last.b)) =>
          (last.q.deg = -1 /\ last.q.coef = 0)
    /\ (last.op # "none" /\ last.ret = 1) =>
          /\ last.q.deg = -1 => last.q.coef = 0
          /\ (last.op = "poly_div" /\ last.r.deg = -1) => last.r.coef = 0

\* the coefficient of X^i in the n-th power of A (n >= 1), and the sum of the
\* products that make it
RECURSIVE PowCoef(_, _, _, _), PowSum(_, _, _, _, _)
PowCoef(H0, a, n, i) ==
    IF n = 1 THEN Poly_GetCoef(H0, a, i) ELSE PowSum(H0, a, n, i, i)
PowSum(H0, a, n, i, k) ==
    IF k < 0 THEN CZero
    ELSE complex_add(PowSum(H0, a, n, i, k - 1),
                     complex_mult(PowCoef(H0, a, n - 1, k),
                                  Poly_GetCoef(H0, a, i - k)))

\* C6: poly_pow(A, n, R) on an A that satisfies the degree invariant returns
\* 1; for n = 0 the result is the constant one; for n >= 1 it is the n-th
\* power of A, the zero polynomial when A is zero.
C6_PowResult ==
    (last.op = "poly_pow" /\ DegInv(H, last.a)) =>
        /\ last.ret = 1
        /\ last.n = 0 => (last.q.deg = 0 /\ Coef(H, last.q, 0) = COne)
        /\ last.n >= 1 =>
              /\ last.q.deg = IF last.a.deg = -1 THEN -1
                              ELSE last.n * last.a.deg
              /\ \A i \in 0..last.q.deg :
                    Coef(H, last.q, i) = PowCoef(H, last.a, last.n, i)

====
